---------------------------- MODULE Spec2Model ----------------------------
(***************************************************************************)
(* GoDeLin: the memoizing table (MapEx.GetOrPut, Map.GetOrPut and the free *)
(* functions GetOrPut / GetOrInsert over a Go map) and the segmentation    *)
(* functions over slices.                                                  *)
(*                                                                         *)
(* Spec            sequential callers of the get-or-put operations         *)
(* SpecConcurrent  callers running MapEx.GetOrPut statement by statement   *)
(*                 with no lock                                            *)
(* SpecLocked      the same callers, every call under one caller-held lock *)
(* SpecChunked     Chunked applied to bounded inputs                       *)
(* SpecChunkedBy   ChunkedBy applied to bounded inputs and predicates      *)
(* SpecWindowed    Windowed run one loop iteration at a time, the calls    *)
(*                 that return or panic                                    *)
(* SpecWindowedLoop  the loop of Windowed without the contents of ret,     *)
(*                 every call                                              *)
(* SpecWindowedFair  the same, the running call always going on            *)
(* SpecZip         Zip, then Unzip of what it returned                     *)
(* SpecSlices      one call of Distinct, DistinctBy, GroupBy, Reduce,      *)
(*                 ReduceIndexed, Filter, Map, FilterMap, FlatMap or       *)
(*                 DropLast                                                *)
(* SpecAlias       Chunked, Drop, Take, Reversed, then a write into what   *)
(*                 they returned; Reverse in place                         *)
(***************************************************************************)
EXTENDS Integers, Sequences, FiniteSets, TLC

(***************************************************************************)
(* Bounds of the model.                                                    *)
(***************************************************************************)
NumKeys == 2
NumValues == 2
MaxOps == 4
NumCallers == 2
MaxConcOps == 2
NumElems == 2
MaxLen == 3
MaxSize == 4
MaxSlack == 1

Keys == 1..NumKeys
Values == 1..NumValues
Callers == 1..NumCallers
Elems == 1..NumElems

VARIABLES
    data,       \* m.data / the map handed to GetOrPut: a function on the stored keys
    calls,      \* per key: invocations of a compute function made for that key
    returned,   \* per key: those invocations that returned a value (did not panic)
    last,       \* the most recent completed call: its operation, key, outcome
    got,        \* per key: the values get-or-put calls of that key have returned
    nops,       \* calls started so far
    pc,         \* per caller: the statement of MapEx.GetOrPut it is about to run
    ckey,       \* per caller: the key argument
    cfn,        \* per caller: the defaultValue argument
    cval,       \* per caller: the local val
    cret,       \* per caller: what its last call returned
    misses,     \* per key: lookups that found the key absent
    lock,       \* the caller holding the caller-side mutex, 0 when free
    crashed,    \* the runtime aborted the process on a detected map race
    input,      \* the slice handed to a segmentation function
    chunkSize,  \* its size argument, a Go int
    result,     \* what the call produced: not yet run, a panic, or the chunks
    groupingFn, \* ChunkedBy's predicate, a func(T, T) bool
    winSize,    \* Windowed's size argument, a Go int
    winStep,    \* Windowed's step argument, a Go int
    winStart,   \* Windowed's local start
    winEnd,     \* Windowed's local end
    input2,     \* Zip's second slice (input is its first)
    unzipped    \* what Unzip returned for the pairs of the last Zip

memoVars == <<data, calls, returned, last, got, nops>>
callerVars == <<pc, ckey, cfn, cval, cret, misses, lock, crashed>>
sliceVars == <<input, chunkSize, result, groupingFn, winSize, winStep, winStart, winEnd, input2, unzipped>>
vars == <<data, calls, returned, last, got, nops,
          pc, ckey, cfn, cval, cret, misses, lock, crashed,
          input, chunkSize, result, groupingFn, winSize, winStep, winStart, winEnd, input2, unzipped>>

(***************************************************************************)
(* Compute functions.  A func() V either returns a value or panics; a      *)
(* func(K) V does one or the other for each key.                           *)
(***************************************************************************)
Returns(v) == [panics |-> FALSE, val |-> v]
Panics == [panics |-> TRUE, val |-> 0]
ComputeFns == {Returns(v) : v \in Values} \cup {Panics}
KeyedComputeFns == [Keys -> ComputeFns]

(***************************************************************************)
(* Go maps: make(map[K]V) is the empty function; m[k] = v adds or replaces *)
(* the entry of k and leaves every other entry alone.                      *)
(***************************************************************************)
EmptyMap == [k \in {} |-> 0]
Put(table, key, v) == [k \in (DOMAIN table) \cup {key} |-> IF k = key THEN v ELSE table[k]]

(***************************************************************************)
(* The outcome of one call: the table afterwards, the value returned (0    *)
(* with panicked), whether the call panicked, and how many times the       *)
(* compute function was invoked.                                           *)
(***************************************************************************)
Outcome(table, ret, panicked, invoked) ==
    [data |-> table, ret |-> ret, panicked |-> panicked, invoked |-> invoked]

\* MapEx.GetOrPut without the early return on ok: it computes and stores again.
MapEx_GetOrPut_NoEarlyReturn(table, key, defaultValue) ==
    IF defaultValue.panics
    THEN Outcome(table, 0, TRUE, 1)
    ELSE Outcome(Put(table, key, defaultValue.val), defaultValue.val, FALSE, 1)

\* map_ex.go:13-21 (and Map.GetOrPut, the same body)
MapEx_GetOrPut(table, key, defaultValue) ==
    IF key \in DOMAIN table
    THEN Outcome(table, table[key], FALSE, 0)
    ELSE IF defaultValue.panics
         THEN Outcome(table, 0, TRUE, 1)
         ELSE Outcome(Put(table, key, defaultValue.val), defaultValue.val, FALSE, 1)

\* GetOrPut that reserves the entry (the zero value) before it computes.
GetOrPut_StoreFirst(table, key, computeValue) ==
    IF key \in DOMAIN table
    THEN Outcome(table, table[key], FALSE, 0)
    ELSE IF computeValue.panics
         THEN Outcome(Put(table, key, 0), 0, TRUE, 1)
         ELSE LET stored == Put(table, key, computeValue.val)
              IN  Outcome(stored, stored[key], FALSE, 1)

\* slice.go:30-36: stores computeValue() and returns table[key] read back
GetOrPut(table, key, computeValue) ==
    IF key \in DOMAIN table
    THEN Outcome(table, table[key], FALSE, 0)
    ELSE IF computeValue.panics
         THEN Outcome(table, 0, TRUE, 1)
         ELSE LET stored == Put(table, key, computeValue.val)
              IN  Outcome(stored, stored[key], FALSE, 1)

\* GetOrPut with the presence test inverted into "present and not the zero
\* value": a stored entry is handed to defaultValue again and replaced.
GetOrPutKeyed_Recompute(theMap, key, defaultValue) ==
    LET f == defaultValue[key]
    IN  IF f.panics
        THEN Outcome(theMap, 0, TRUE, 1)
        ELSE Outcome(Put(theMap, key, f.val), f.val, FALSE, 1)

\* godelin.go:23-30: defaultValue receives the key
GetOrPutKeyed(theMap, key, defaultValue) ==
    IF key \in DOMAIN theMap
    THEN Outcome(theMap, theMap[key], FALSE, 0)
    ELSE LET f == defaultValue[key]
         IN  IF f.panics
             THEN Outcome(theMap, 0, TRUE, 1)
             ELSE Outcome(Put(theMap, key, f.val), f.val, FALSE, 1)

\* GetOrInsert that returns the new value but never inserts it.
GetOrInsert_NoInsert(m, k, fn) ==
    IF k \in DOMAIN m
    THEN Outcome(m, m[k], FALSE, 0)
    ELSE LET f == fn[k]
         IN  IF f.panics
             THEN Outcome(m, 0, TRUE, 1)
             ELSE Outcome(m, f.val, FALSE, 1)

\* slice.go:353-363
GetOrInsert(m, k, fn) ==
    IF k \in DOMAIN m
    THEN Outcome(m, m[k], FALSE, 0)
    ELSE LET f == fn[k]
         IN  IF f.panics
             THEN Outcome(m, 0, TRUE, 1)
             ELSE Outcome(Put(m, k, f.val), f.val, FALSE, 1)

(***************************************************************************)
(* Sequential callers.                                                     *)
(***************************************************************************)
NoCall == [op |-> "none", key |-> 0, arg |-> Panics, hit |-> FALSE, ret |-> 0,
           panicked |-> FALSE, invoked |-> 0, before |-> EmptyMap]

InitMemo ==
    /\ data = EmptyMap
    /\ calls = [k \in Keys |-> 0]
    /\ returned = [k \in Keys |-> 0]
    /\ last = NoCall
    /\ got = [k \in Keys |-> {}]
    /\ nops = 0

NoReturn == [key |-> 0, ret |-> 0, panicked |-> FALSE, computed |-> FALSE]

InitCallers ==
    /\ pc = [c \in Callers |-> "idle"]
    /\ ckey = [c \in Callers |-> 0]
    /\ cfn = [c \in Callers |-> Panics]
    /\ cval = [c \in Callers |-> 0]
    /\ cret = [c \in Callers |-> NoReturn]
    /\ misses = [k \in Keys |-> 0]
    /\ lock = 0
    /\ crashed = FALSE

\* The effect of a completed call on the table and on the observations; f is the
\* compute function the call was given, applied to the key where it takes one.
Complete(op, key, f, out) ==
    /\ nops < MaxOps
    /\ nops' = nops + 1
    /\ data' = out.data
    /\ calls' = [calls EXCEPT ![key] = @ + out.invoked]
    /\ returned' = [returned EXCEPT ![key] = @ + (IF out.panicked THEN 0 ELSE out.invoked)]
    /\ last' = [op |-> op, key |-> key, arg |-> f, hit |-> key \in DOMAIN data,
                ret |-> out.ret, panicked |-> out.panicked, invoked |-> out.invoked, before |-> data]
    /\ got' = [got EXCEPT ![key] = IF out.panicked THEN @ ELSE @ \cup {out.ret}]
    /\ UNCHANGED <<callerVars, sliceVars>>

CallMapExGetOrPut ==
    \E key \in Keys, f \in ComputeFns :
        Complete("MapEx.GetOrPut", key, f, MapEx_GetOrPut(data, key, f))

CallGetOrPut ==
    \E key \in Keys, f \in ComputeFns :
        Complete("GetOrPut", key, f, GetOrPut(data, key, f))

CallGetOrPutKeyed ==
    \E key \in Keys, f \in KeyedComputeFns :
        Complete("GetOrPutKeyed", key, f[key], GetOrPutKeyed(data, key, f))

CallGetOrInsert ==
    \E key \in Keys, f \in KeyedComputeFns :
        Complete("GetOrInsert", key, f[key], GetOrInsert(data, key, f))

\* No segmentation call is in play.
NotRun == [state |-> "notrun", chunks |-> << >>]

\* The arguments and locals of the calls that no specification here makes.
NoFn == << >>
NotUnzipped == [done |-> FALSE, s1 |-> << >>, s2 |-> << >>]

NoChunkedBy == groupingFn = NoFn
NoWindowed == winSize = 0 /\ winStep = 0 /\ winStart = 0 /\ winEnd = 0
NoZip == input2 = << >> /\ unzipped = NotUnzipped

InitNoSlice ==
    /\ input = << >>
    /\ chunkSize = 0
    /\ result = NotRun
    /\ NoChunkedBy /\ NoWindowed /\ NoZip

Init == InitMemo /\ InitCallers /\ InitNoSlice

Next ==
    \/ CallMapExGetOrPut
    \/ CallGetOrPut
    \/ CallGetOrPutKeyed
    \/ CallGetOrInsert

Spec == Init /\ [][Next]_vars

(***************************************************************************)
(* Concurrent callers of MapEx.GetOrPut (map_ex.go:13-21), one statement   *)
(* at a time.  pc: "idle" (not in a call), "lookup" (line 14), "compute"   *)
(* (line 18), "store" (lines 19-20), "done" (returned or panicked).        *)
(***************************************************************************)

\* A lookup whose ok is lost: every key is reported absent.
MapLookup_AlwaysMiss(table, key) == [ok |-> FALSE, val |-> 0]

\* line 14: val, ok := m.data[key]
MapLookup(table, key) ==
    IF key \in DOMAIN table THEN [ok |-> TRUE, val |-> table[key]]
                            ELSE [ok |-> FALSE, val |-> 0]

\* A call begins: the arguments are bound.  (Enter and Leave leave the mutex to
\* the caller's side: Call/Return without one, LockAndEnter/UnlockAndLeave with.)
Enter(c, key, f) ==
    /\ ~crashed /\ pc[c] = "idle" /\ nops < MaxConcOps
    /\ nops' = nops + 1
    /\ pc' = [pc EXCEPT ![c] = "lookup"]
    /\ ckey' = [ckey EXCEPT ![c] = key]
    /\ cfn' = [cfn EXCEPT ![c] = f]
    /\ cval' = [cval EXCEPT ![c] = 0]
    /\ UNCHANGED <<data, calls, returned, last, got, cret, misses, crashed, sliceVars>>

\* lines 14-17: the lookup, and the early return when the key is present.
Lookup(c) ==
    /\ ~crashed /\ pc[c] = "lookup"
    /\ LET r == MapLookup(data, ckey[c])
       IN  IF r.ok
           THEN /\ pc' = [pc EXCEPT ![c] = "done"]
                /\ cval' = [cval EXCEPT ![c] = r.val]
                /\ cret' = [cret EXCEPT ![c] = [key |-> ckey[c], ret |-> r.val,
                                                panicked |-> FALSE, computed |-> FALSE]]
                /\ got' = [got EXCEPT ![ckey[c]] = @ \cup {r.val}]
                /\ UNCHANGED misses
           ELSE /\ pc' = [pc EXCEPT ![c] = "compute"]
                /\ misses' = [misses EXCEPT ![ckey[c]] = @ + 1]
                /\ UNCHANGED <<cval, cret, got>>
    /\ UNCHANGED <<data, calls, returned, last, nops, ckey, cfn, lock, crashed, sliceVars>>

\* Compute that looks the key up once more and skips defaultValue when the key
\* has been stored in the meantime (a double-checked GetOrPut).
ComputeRechecked(c) ==
    /\ ~crashed /\ pc[c] = "compute"
    /\ IF ckey[c] \in DOMAIN data
       THEN /\ pc' = [pc EXCEPT ![c] = "done"]
            /\ cret' = [cret EXCEPT ![c] = [key |-> ckey[c], ret |-> data[ckey[c]],
                                            panicked |-> FALSE, computed |-> FALSE]]
            /\ got' = [got EXCEPT ![ckey[c]] = @ \cup {data[ckey[c]]}]
            /\ UNCHANGED <<calls, returned, cval>>
       ELSE /\ calls' = [calls EXCEPT ![ckey[c]] = @ + 1]
            /\ IF cfn[c].panics
               THEN /\ pc' = [pc EXCEPT ![c] = "done"]
                    /\ cret' = [cret EXCEPT ![c] = [key |-> ckey[c], ret |-> 0,
                                                    panicked |-> TRUE, computed |-> TRUE]]
                    /\ UNCHANGED <<returned, cval>>
               ELSE /\ pc' = [pc EXCEPT ![c] = "store"]
                    /\ cval' = [cval EXCEPT ![c] = cfn[c].val]
                    /\ returned' = [returned EXCEPT ![ckey[c]] = @ + 1]
                    /\ UNCHANGED cret
            /\ UNCHANGED got
    /\ UNCHANGED <<data, last, nops, ckey, cfn, misses, lock, crashed, sliceVars>>

\* line 18: val = defaultValue(); a panic leaves the call at once.
Compute(c) ==
    /\ ~crashed /\ pc[c] = "compute"
    /\ calls' = [calls EXCEPT ![ckey[c]] = @ + 1]
    /\ IF cfn[c].panics
       THEN /\ pc' = [pc EXCEPT ![c] = "done"]
            /\ cret' = [cret EXCEPT ![c] = [key |-> ckey[c], ret |-> 0,
                                            panicked |-> TRUE, computed |-> TRUE]]
            /\ UNCHANGED <<returned, cval>>
       ELSE /\ pc' = [pc EXCEPT ![c] = "store"]
            /\ cval' = [cval EXCEPT ![c] = cfn[c].val]
            /\ returned' = [returned EXCEPT ![ckey[c]] = @ + 1]
            /\ UNCHANGED cret
    /\ UNCHANGED <<data, last, got, nops, ckey, cfn, misses, lock, crashed, sliceVars>>

\* lines 19-20: m.data[key] = val; return val
Store(c) ==
    /\ ~crashed /\ pc[c] = "store"
    /\ data' = Put(data, ckey[c], cval[c])
    /\ pc' = [pc EXCEPT ![c] = "done"]
    /\ cret' = [cret EXCEPT ![c] = [key |-> ckey[c], ret |-> cval[c],
                                    panicked |-> FALSE, computed |-> TRUE]]
    /\ got' = [got EXCEPT ![ckey[c]] = @ \cup {cval[c]}]
    /\ UNCHANGED <<calls, returned, last, nops, ckey, cfn, cval, misses, lock, crashed, sliceVars>>

\* The call is over: its parameters and locals are gone, the caller keeps what
\* it was handed and may call again.
Leave(c) ==
    /\ ~crashed /\ pc[c] = "done"
    /\ pc' = [pc EXCEPT ![c] = "idle"]
    /\ ckey' = [ckey EXCEPT ![c] = 0]
    /\ cfn' = [cfn EXCEPT ![c] = Panics]
    /\ cval' = [cval EXCEPT ![c] = 0]
    /\ UNCHANGED <<memoVars, cret, misses, crashed, sliceVars>>

\* Without a lock: calls begin and end freely.
Call(c, key, f) == Enter(c, key, f) /\ UNCHANGED lock

Return(c) == Leave(c) /\ UNCHANGED lock

\* Unsynchronised access to a Go map is a data race.  When one caller is about
\* to write the map while another is about to read or write it, the runtime
\* may detect the overlap and abort the process ("fatal error: concurrent map
\* writes" / "concurrent map read and map write"); it may also detect nothing,
\* and then the accesses take effect in some order (the steps above).
MapRaceFatal ==
    /\ ~crashed
    /\ \E c1, c2 \in Callers :
          c1 # c2 /\ pc[c1] = "store" /\ pc[c2] \in {"lookup", "store"}
    /\ crashed' = TRUE
    /\ UNCHANGED <<memoVars, pc, ckey, cfn, cval, cret, misses, lock, sliceVars>>

NextConcurrent ==
    \/ \E c \in Callers, key \in Keys, f \in ComputeFns : Call(c, key, f)
    \/ \E c \in Callers : Lookup(c)
    \/ \E c \in Callers : Compute(c)
    \/ \E c \in Callers : Store(c)
    \/ \E c \in Callers : Return(c)
    \/ MapRaceFatal

SpecConcurrent == Init /\ [][NextConcurrent]_vars

(***************************************************************************)
(* The same callers with every GetOrPut call made under one mutex that the *)
(* callers hold: locked before the call, unlocked (deferred) when the call *)
(* returns or panics.                                                      *)
(***************************************************************************)
LockAndEnter(c, key, f) ==
    /\ lock = 0
    /\ lock' = c
    /\ Enter(c, key, f)

LockedStep(c) ==
    /\ lock = c
    /\ (Lookup(c) \/ Compute(c) \/ Store(c))

UnlockAndLeave(c) ==
    /\ lock = c
    /\ lock' = 0
    /\ Leave(c)

NextLocked ==
    \/ \E c \in Callers, key \in Keys, f \in ComputeFns : LockAndEnter(c, key, f)
    \/ \E c \in Callers : LockedStep(c)
    \/ \E c \in Callers : UnlockAndLeave(c)

SpecLocked == Init /\ [][NextLocked]_vars

(***************************************************************************)
(* Go's int.  Its width is the target's: 32 bits on 32-bit targets (386,   *)
(* arm), 64 bits on 64-bit ones.  The model takes the 32-bit int; on a     *)
(* 64-bit target the same wrap-around happens at 2^63 - 1.  + and - wrap   *)
(* around in two's complement (they never panic), / truncates toward zero. *)
(* The operators below never leave the 32-bit range while computing.       *)
(***************************************************************************)
MaxInt == 2147483647
MinInt == (-MaxInt) - 1

\* a + b, wrapped
AddInt(a, b) ==
    IF b > 0 /\ a > MaxInt - b THEN (a - MaxInt - 1) + (b - MaxInt - 1)
    ELSE IF b < 0 /\ a < MinInt - b THEN (a + MaxInt + 1) + (b + MaxInt + 1)
    ELSE a + b

\* a / b for a divisor b > 0: the quotient truncated toward zero
QuoInt(a, b) ==
    IF a >= 0 THEN a \div b
    ELSE LET m == -(a + 1)      \* |a| - 1, which fits also when a = MinInt
         IN  (-(m \div b)) - (IF m % b = b - 1 THEN 1 ELSE 0)

(***************************************************************************)
(* Slices.  A slice expression input[lo:hi] is a view of input's elements  *)
(* lo .. hi-1 (0-based): [lo |-> lo, hi |-> hi].  It panics unless         *)
(* 0 <= lo <= hi <= cap(input); the inputs here have cap = len.            *)
(***************************************************************************)
View(lo, hi) == [lo |-> lo, hi |-> hi]
ViewLen(v) == v.hi - v.lo
ViewElems(s, v) == SubSeq(s, v.lo + 1, v.hi)

RECURSIVE Flatten(_, _)
Flatten(s, views) ==
    IF views = << >> THEN << >>
    ELSE ViewElems(s, Head(views)) \o Flatten(s, Tail(views))

Panicked == [state |-> "panic", chunks |-> << >>]
Returned(views) == [state |-> "returned", chunks |-> views]

\* slice.go:86-92, the loop from `start` on with `acc` appended so far
RECURSIVE ChunkedLoop(_, _, _, _)
ChunkedLoop(totalItems, size, start, acc) ==
    IF start < totalItems
    THEN LET sum == AddInt(start, size)
             end == IF sum > totalItems THEN totalItems ELSE sum
         IN  IF end < start
             THEN Panicked       \* input[start:end]: slice bounds out of range
             ELSE ChunkedLoop(totalItems, size, AddInt(start, size),
                              Append(acc, View(start, end)))
    ELSE Returned(acc)

\* Chunked that answers an empty input before it looks at the size.
Chunked_EmptyInputFirst(in, size) ==
    IF Len(in) = 0
    THEN Returned(<< >>)
    ELSE IF size <= 0
         THEN Panicked
         ELSE LET capacity == QuoInt(AddInt(AddInt(Len(in), size), -1), size)
              IN  IF capacity < 0
                  THEN Panicked
                  ELSE ChunkedLoop(Len(in), size, 0, << >>)

\* slice.go:80-94 (godelin.go:41-55 is the same function)
Chunked(in, size) ==
    IF size <= 0
    THEN Panicked               \* panic("chunkSize must be positive")
    ELSE LET totalItems == Len(in)
             capacity == QuoInt(AddInt(AddInt(totalItems, size), -1), size)
         IN  IF capacity < 0
             THEN Panicked       \* make([][]T, 0, capacity): cap out of range
             ELSE ChunkedLoop(totalItems, size, 0, << >>)

(***************************************************************************)
(* Chunked applied to every slice of at most MaxLen elements and to sizes  *)
(* around zero and just below the largest int.                             *)
(***************************************************************************)
RECURSIVE SeqsUpTo(_)
SeqsUpTo(n) ==
    IF n = 0 THEN {<< >>}
    ELSE LET shorter == SeqsUpTo(n - 1)
         IN  shorter \cup {Append(s, e) : s \in {t \in shorter : Len(t) = n - 1}, e \in Elems}

Inputs == SeqsUpTo(MaxLen)
Sizes == ((-MaxSize)..MaxSize) \cup {MaxInt - d : d \in 0..MaxSlack}

InitChunked ==
    /\ InitMemo /\ InitCallers
    /\ input \in Inputs
    /\ chunkSize \in Sizes
    /\ result = NotRun
    /\ NoChunkedBy /\ NoWindowed /\ NoZip

CallChunked ==
    /\ result.state = "notrun"
    /\ result' = Chunked(input, chunkSize)
    /\ UNCHANGED <<input, chunkSize, memoVars, callerVars>>
    /\ UNCHANGED <<groupingFn, winSize, winStep, winStart, winEnd, input2, unzipped>>

NextChunked == CallChunked

SpecChunked == InitChunked /\ [][NextChunked]_vars

(***************************************************************************)
(* ChunkedBy (slice.go:112-132, the same code in godelin.go:57-76).  The   *)
(* runs it returns are slices of their own: each holds copies of the       *)
(* elements, so a run is the sequence of its elements.  A Go slice is nil  *)
(* or not; a nil slice has length zero.  `consulted` keeps the argument    *)
(* pairs handed to groupingFn, in call order.  groupingFn is a total       *)
(* function on pairs of elements; a predicate that panics is not modelled. *)
(***************************************************************************)
ReturnedRuns(nil, runs, pairs) ==
    [state |-> "returned", isNil |-> nil, chunks |-> runs, consulted |-> pairs]

\* a result that is a nil slice
IsNil(r) == "isNil" \in DOMAIN r /\ r.isNil

\* The loop comparing the next element with the first element of the run.
RECURSIVE ChunkedByLoop_FirstOfRun(_, _, _, _, _)
ChunkedByLoop_FirstOfRun(rest, fn, resultChunks, currentChunk, consulted) ==
    IF rest = << >>
    THEN ReturnedRuns(FALSE, Append(resultChunks, currentChunk), consulted)
    ELSE LET currentElement == Head(rest)
             firstElement == currentChunk[1]
             asked == Append(consulted, <<firstElement, currentElement>>)
         IN  IF fn[<<firstElement, currentElement>>]
             THEN ChunkedByLoop_FirstOfRun(Tail(rest), fn, resultChunks,
                                           Append(currentChunk, currentElement), asked)
             ELSE ChunkedByLoop_FirstOfRun(Tail(rest), fn, Append(resultChunks, currentChunk),
                                           <<currentElement>>, asked)

\* The loop that forgets the run it closes.
RECURSIVE ChunkedByLoop_DropsClosedRun(_, _, _, _, _)
ChunkedByLoop_DropsClosedRun(rest, fn, resultChunks, currentChunk, consulted) ==
    IF rest = << >>
    THEN ReturnedRuns(FALSE, Append(resultChunks, currentChunk), consulted)
    ELSE LET currentElement == Head(rest)
             lastElement == currentChunk[Len(currentChunk)]
             asked == Append(consulted, <<lastElement, currentElement>>)
         IN  IF fn[<<lastElement, currentElement>>]
             THEN ChunkedByLoop_DropsClosedRun(Tail(rest), fn, resultChunks,
                                               Append(currentChunk, currentElement), asked)
             ELSE ChunkedByLoop_DropsClosedRun(Tail(rest), fn, resultChunks,
                                               <<currentElement>>, asked)

\* slice.go:120-131: the range over inputSlice[1:], `rest` being what is
\* left of it, and the final append of the current chunk
RECURSIVE ChunkedByLoop(_, _, _, _, _)
ChunkedByLoop(rest, fn, resultChunks, currentChunk, consulted) ==
    IF rest = << >>
    THEN ReturnedRuns(FALSE, Append(resultChunks, currentChunk), consulted)
    ELSE LET currentElement == Head(rest)
             lastElement == currentChunk[Len(currentChunk)]
             asked == Append(consulted, <<lastElement, currentElement>>)
         IN  IF fn[<<lastElement, currentElement>>]
             THEN ChunkedByLoop(Tail(rest), fn, resultChunks,
                                Append(currentChunk, currentElement), asked)
             ELSE ChunkedByLoop(Tail(rest), fn, Append(resultChunks, currentChunk),
                                <<currentElement>>, asked)

\* ChunkedBy answering an empty input with an empty slice that is not nil.
ChunkedBy_EmptyNotNil(inputSlice, fn) ==
    IF Len(inputSlice) = 0
    THEN ReturnedRuns(FALSE, << >>, << >>)
    ELSE ChunkedByLoop(Tail(inputSlice), fn, << >>, <<inputSlice[1]>>, << >>)

ChunkedBy(inputSlice, fn) ==
    IF Len(inputSlice) = 0
    THEN ReturnedRuns(TRUE, << >>, << >>)       \* return nil
    ELSE ChunkedByLoop(Tail(inputSlice), fn, << >>, <<inputSlice[1]>>, << >>)

\* The predicates: every total func(T, T) bool on the elements.
GroupingFns == [Elems \X Elems -> BOOLEAN]

InitChunkedBy ==
    /\ InitMemo /\ InitCallers
    /\ input \in Inputs
    /\ groupingFn \in GroupingFns
    /\ chunkSize = 0
    /\ result = NotRun
    /\ NoWindowed /\ NoZip

CallChunkedBy ==
    /\ result.state = "notrun"
    /\ result' = ChunkedBy(input, groupingFn)
    /\ UNCHANGED <<input, chunkSize, groupingFn, memoVars, callerVars>>
    /\ UNCHANGED <<winSize, winStep, winStart, winEnd, input2, unzipped>>

NextChunkedBy == CallChunkedBy

SpecChunkedBy == InitChunkedBy /\ [][NextChunkedBy]_vars

(***************************************************************************)
(* Windowed (slice.go:554-591, the same code in godelin.go:359-396).  It   *)
(* makes no check of size or step.  Each window is a slice of its own that *)
(* holds copies of the elements, so a window is the sequence of its        *)
(* elements.  The for loop has no bound of its own, so the call is taken   *)
(* one iteration at a time: WindowedEnter runs up to the loop,             *)
(* WindowedIterate runs its body once.  With step = 0 and size > 0 on a    *)
(* non-empty input the loop never ends and ret grows without limit         *)
(* (LoopsForever): SpecWindowed follows every other call with all of ret,  *)
(* and SpecWindowedLoop follows every call, those included, with the       *)
(* locals that decide the loop (start, end) and, of ret, only whether its  *)
(* number of windows is odd.                                               *)
(***************************************************************************)
Running(windows) == [state |-> "running", isNil |-> FALSE, chunks |-> windows]
ReturnedWindows(windows) == [state |-> "returned", isNil |-> FALSE, chunks |-> windows]

\* updateEnd (slice.go:562-568): the new end
UpdateEnd(start, size, sz) ==
    LET e == AddInt(start, size)
    IN  IF e >= sz THEN sz ELSE e

\* updateStart that moves on by one element whatever the step.
UpdateStart_ByOne(start, step, sz) ==
    LET s == AddInt(start, 1)
    IN  IF s >= sz THEN sz ELSE s

\* updateStart (slice.go:569-575): the new start
UpdateStart(start, step, sz) ==
    LET s == AddInt(start, step)
    IN  IF s >= sz THEN sz ELSE s

\* ret = append(ret, sub) (slice.go:583)
AppendWindow(ret, sub) == Append(ret, sub)

\* The loop body that tests start == end before it moves start and end.
WindowedIteration_TestsBeforeUpdate(s, size, step, start, end, ret) ==
    IF end < 0
    THEN [state |-> "panic", start |-> start, end |-> end, chunks |-> << >>]
    ELSE IF start < end /\ start < 0
    THEN [state |-> "panic", start |-> start, end |-> end, chunks |-> << >>]
    ELSE LET sub == IF start < end THEN [i \in 1..(end - start) |-> s[start + i]] ELSE << >>
             newStart == UpdateStart(start, step, Len(s))
             newEnd == UpdateEnd(newStart, size, Len(s))
         IN  [state |-> IF start = end THEN "returned" ELSE "running",
              start |-> newStart, end |-> newEnd, chunks |-> AppendWindow(ret, sub)]

\* One run of the loop body (slice.go:578-588) from the locals start, end and
\* ret: the state the call is in afterwards, and the locals.
WindowedIteration(s, size, step, start, end, ret) ==
    IF end < 0
    THEN \* make([]T, 0, end): makeslice: cap out of range
         [state |-> "panic", start |-> start, end |-> end, chunks |-> << >>]
    ELSE IF start < end /\ start < 0
    THEN \* s[i] with i = start: index out of range
         [state |-> "panic", start |-> start, end |-> end, chunks |-> << >>]
    ELSE LET sub == IF start < end THEN [i \in 1..(end - start) |-> s[start + i]] ELSE << >>
             newStart == UpdateStart(start, step, Len(s))
             newEnd == UpdateEnd(newStart, size, Len(s))
         IN  [state |-> IF newStart = newEnd THEN "returned" ELSE "running",
              start |-> newStart, end |-> newEnd, chunks |-> AppendWindow(ret, sub)]

\* The calls whose loop never ends: updateStart leaves start at 0 and
\* updateEnd leaves end at min(size, len(s)) > 0, so start == end
\* (slice.go:586) is never true.
LoopsForever(s, size, step) == Len(s) > 0 /\ size > 0 /\ step = 0

InitWindowed ==
    /\ InitMemo /\ InitCallers
    /\ input \in Inputs
    /\ winSize \in Sizes
    /\ winStep \in Sizes
    /\ ~LoopsForever(input, winSize, winStep)
    /\ winStart = 0
    /\ winEnd = 0
    /\ chunkSize = 0
    /\ result = NotRun
    /\ NoChunkedBy /\ NoZip

\* slice.go:555-576: the empty input returns at once; otherwise the first
\* updateEnd()
WindowedEnter ==
    /\ result.state = "notrun"
    /\ IF Len(input) = 0
       THEN /\ result' = ReturnedWindows(<< >>)
            /\ UNCHANGED <<winStart, winEnd>>
       ELSE /\ result' = Running(<< >>)
            /\ winStart' = 0
            /\ winEnd' = UpdateEnd(0, winSize, Len(input))
    /\ UNCHANGED <<input, chunkSize, groupingFn, winSize, winStep, input2, unzipped>>
    /\ UNCHANGED <<memoVars, callerVars>>

\* slice.go:577-589: one iteration of the for loop
WindowedIterate ==
    /\ result.state = "running"
    /\ LET after == WindowedIteration(input, winSize, winStep, winStart, winEnd, result.chunks)
       IN  /\ result' = IF after.state = "panic" THEN Panicked
                        ELSE IF after.state = "returned" THEN ReturnedWindows(after.chunks)
                        ELSE Running(after.chunks)
           /\ winStart' = after.start
           /\ winEnd' = after.end
    /\ UNCHANGED <<input, chunkSize, groupingFn, winSize, winStep, input2, unzipped>>
    /\ UNCHANGED <<memoVars, callerVars>>

NextWindowed == WindowedEnter \/ WindowedIterate

SpecWindowed == InitWindowed /\ [][NextWindowed]_vars

\* The loop without the contents of ret.  Whether the body panics, whether
\* the loop goes on, and the new start and end depend on s, size, step, start
\* and end alone (slice.go:562-588), never on ret; `odd` is whether ret holds
\* an odd number of windows.
InLoop(state, odd) == [state |-> state, isNil |-> FALSE, odd |-> odd]

InitWindowedLoop ==
    /\ InitMemo /\ InitCallers
    /\ input \in Inputs
    /\ winSize \in Sizes
    /\ winStep \in Sizes
    /\ winStart = 0
    /\ winEnd = 0
    /\ chunkSize = 0
    /\ result = NotRun
    /\ NoChunkedBy /\ NoZip

\* slice.go:555-576, as WindowedEnter
WindowedLoopEnter ==
    /\ result.state = "notrun"
    /\ IF Len(input) = 0
       THEN /\ result' = InLoop("returned", FALSE)
            /\ UNCHANGED <<winStart, winEnd>>
       ELSE /\ result' = InLoop("running", FALSE)
            /\ winStart' = 0
            /\ winEnd' = UpdateEnd(0, winSize, Len(input))
    /\ UNCHANGED <<input, chunkSize, groupingFn, winSize, winStep, input2, unzipped>>
    /\ UNCHANGED <<memoVars, callerVars>>

\* slice.go:577-589: one iteration of the for loop, as WindowedIterate; the
\* iteration appends one window to ret.
WindowedLoopIterate ==
    /\ result.state = "running"
    /\ LET after == WindowedIteration(input, winSize, winStep, winStart, winEnd, << >>)
       IN  /\ result' = IF after.state = "panic" THEN Panicked
                        ELSE InLoop(after.state, ~result.odd)
           /\ winStart' = after.start
           /\ winEnd' = after.end
    /\ UNCHANGED <<input, chunkSize, groupingFn, winSize, winStep, input2, unzipped>>
    /\ UNCHANGED <<memoVars, callerVars>>

NextWindowedLoop == WindowedLoopEnter \/ WindowedLoopIterate

SpecWindowedLoop == InitWindowedLoop /\ [][NextWindowedLoop]_vars

\* The call keeps running: a started loop goes on to its next iteration.
SpecWindowedFair == SpecWindowedLoop /\ WF_vars(NextWindowedLoop)

(***************************************************************************)
(* Zip and Unzip (slice.go:595-611 and 541-550; godelin.go:398-413 and     *)
(* 348-357 name the fields First and Second).  Zip returns pointers to     *)
(* pairs it allocates itself, none of them nil; a pair is the record of    *)
(* its two fields.                                                         *)
(***************************************************************************)
Pair(fst, snd) == [Fst |-> fst, Snd |-> snd]

ReturnedPairs(ps) == [state |-> "returned", isNil |-> FALSE, pairs |-> ps]

\* slice.go:604-609: the loop from index i (0-based) on
RECURSIVE ZipLoop(_, _, _, _, _)
ZipLoop(s1, s2, i, minLen, ret) ==
    IF i < minLen
    THEN ZipLoop(s1, s2, i + 1, minLen, Append(ret, Pair(s1[i + 1], s2[i + 1])))
    ELSE ret

\* Zip that stops one pair early.
Zip_OneShort(s1, s2) ==
    LET minLen == IF Len(s1) > Len(s2) THEN Len(s2) ELSE Len(s1)
    IN  ZipLoop(s1, s2, 0, IF minLen > 0 THEN minLen - 1 ELSE 0, << >>)

Zip(s1, s2) ==
    LET minLen == IF Len(s1) > Len(s2) THEN Len(s2) ELSE Len(s1)
    IN  ZipLoop(s1, s2, 0, minLen, << >>)

\* slice.go:545-548: the range over ps, `rest` being what is left of it
RECURSIVE UnzipLoop(_, _, _)
UnzipLoop(rest, s1, s2) ==
    IF rest = << >> THEN <<s1, s2>>
    ELSE UnzipLoop(Tail(rest), Append(s1, Head(rest).Fst), Append(s2, Head(rest).Snd))

\* Unzip that hands its two slices back in the other order.
Unzip_Swapped(ps) ==
    LET both == UnzipLoop(ps, << >>, << >>)
    IN  <<both[2], both[1]>>

Unzip(ps) == UnzipLoop(ps, << >>, << >>)

InitZip ==
    /\ InitMemo /\ InitCallers
    /\ input \in Inputs
    /\ input2 \in Inputs
    /\ unzipped = NotUnzipped
    /\ chunkSize = 0
    /\ result = NotRun
    /\ NoChunkedBy /\ NoWindowed

CallZip ==
    /\ result.state = "notrun"
    /\ result' = ReturnedPairs(Zip(input, input2))
    /\ UNCHANGED <<input, input2, unzipped, chunkSize, groupingFn>>
    /\ UNCHANGED <<winSize, winStep, winStart, winEnd, memoVars, callerVars>>

\* Unzip of the pairs Zip returned
CallUnzip ==
    /\ result.state = "returned"
    /\ ~unzipped.done
    /\ LET both == Unzip(result.pairs)
       IN  unzipped' = [done |-> TRUE, s1 |-> both[1], s2 |-> both[2]]
    /\ UNCHANGED <<input, input2, result, chunkSize, groupingFn>>
    /\ UNCHANGED <<winSize, winStep, winStart, winEnd, memoVars, callerVars>>

NextZip == CallZip \/ CallUnzip

SpecZip == InitZip /\ [][NextZip]_vars

(***************************************************************************)
(* The functions that take one slice and run to their end in one call.     *)
(* Each call is one step from "notrun"; the function arguments are chosen  *)
(* at the call and kept in the result next to what the call returned.      *)
(***************************************************************************)
InitSlices ==
    /\ InitMemo /\ InitCallers
    /\ input \in Inputs
    /\ chunkSize = 0
    /\ result = NotRun
    /\ NoChunkedBy /\ NoWindowed /\ NoZip

\* One call, whose outcome is r, on the slice `input`.
Apply(r) ==
    /\ result.state = "notrun"
    /\ result' = r
    /\ UNCHANGED <<input, chunkSize, groupingFn, input2, unzipped>>
    /\ UNCHANGED <<winSize, winStep, winStart, winEnd, memoVars, callerVars>>

\* A returned []T: nil or not, and its elements.
ReturnedItems(nil, items) == [state |-> "returned", isNil |-> nil, items |-> items]

(***************************************************************************)
(* Distinct and DistinctBy (slice.go:150-165 and 176-193; the same code in *)
(* godelin.go:78-111).  `seen` is the key set of the map seen / seenKeys.  *)
(***************************************************************************)
\* The loop that remembers only the element it saw last.
RECURSIVE DistinctLoop_AdjacentOnly(_, _, _)
DistinctLoop_AdjacentOnly(rest, seen, acc) ==
    IF rest = << >> THEN acc
    ELSE IF Head(rest) \in seen
         THEN DistinctLoop_AdjacentOnly(Tail(rest), seen, acc)
         ELSE DistinctLoop_AdjacentOnly(Tail(rest), {Head(rest)}, Append(acc, Head(rest)))

\* slice.go:157-163: the range over items, `rest` being what is left of it
RECURSIVE DistinctLoop(_, _, _)
DistinctLoop(rest, seen, acc) ==
    IF rest = << >> THEN acc
    ELSE IF Head(rest) \in seen
         THEN DistinctLoop(Tail(rest), seen, acc)                       \* continue
         ELSE DistinctLoop(Tail(rest), seen \cup {Head(rest)}, Append(acc, Head(rest)))

Distinct(items) ==
    IF Len(items) < 1
    THEN ReturnedItems(TRUE, << >>)                                     \* return nil
    ELSE ReturnedItems(FALSE, DistinctLoop(items, {}, << >>))

\* The loop that takes the element itself for its key.
RECURSIVE DistinctByLoop_KeyIsElement(_, _, _, _)
DistinctByLoop_KeyIsElement(rest, keySelector, seenKeys, acc) ==
    IF rest = << >> THEN acc
    ELSE LET key == Head(rest)
         IN  IF key \notin seenKeys
             THEN DistinctByLoop_KeyIsElement(Tail(rest), keySelector, seenKeys \cup {key},
                                              Append(acc, Head(rest)))
             ELSE DistinctByLoop_KeyIsElement(Tail(rest), keySelector, seenKeys, acc)

\* slice.go:184-190: the range over elements
RECURSIVE DistinctByLoop(_, _, _, _)
DistinctByLoop(rest, keySelector, seenKeys, acc) ==
    IF rest = << >> THEN acc
    ELSE LET key == keySelector[Head(rest)]
         IN  IF key \notin seenKeys
             THEN DistinctByLoop(Tail(rest), keySelector, seenKeys \cup {key},
                                 Append(acc, Head(rest)))
             ELSE DistinctByLoop(Tail(rest), keySelector, seenKeys, acc)

DistinctBy(elements, keySelector) ==
    IF Len(elements) = 0
    THEN ReturnedItems(TRUE, << >>)                                     \* return nil
    ELSE ReturnedItems(FALSE, DistinctByLoop(elements, keySelector, {}, << >>))

\* The key selectors: every total func(T) K from the elements to the keys.
KeySelectors == [Elems -> Keys]

\* What the call was, next to what it gave.
Called(op, fn, r) == [op |-> op, fn |-> fn] @@ r

CallDistinct == Apply(Called("Distinct", NoFn, Distinct(input)))

CallDistinctBy ==
    \E keySelector \in KeySelectors :
        Apply(Called("DistinctBy", keySelector, DistinctBy(input, keySelector)))

(***************************************************************************)
(* GroupBy (slice.go:54-61).  resultMap is a Go map from keys to slices;   *)
(* resultMap[key] of a key not in the map is the nil slice, to which       *)
(* append adds the first value.                                            *)
(***************************************************************************)
\* resultMap[key], the nil slice when key has no entry
Lookup0(resultMap, key) == IF key \in DOMAIN resultMap THEN resultMap[key] ELSE << >>

\* The loop that puts a new value in front of its group.
RECURSIVE GroupByLoop_Prepends(_, _, _)
GroupByLoop_Prepends(rest, transform, resultMap) ==
    IF rest = << >> THEN resultMap
    ELSE LET key == transform[Head(rest)][1]
             value == transform[Head(rest)][2]
         IN  GroupByLoop_Prepends(Tail(rest), transform,
                                  Put(resultMap, key, <<value>> \o Lookup0(resultMap, key)))

\* slice.go:56-59: the range over items
RECURSIVE GroupByLoop(_, _, _)
GroupByLoop(rest, transform, resultMap) ==
    IF rest = << >> THEN resultMap
    ELSE LET key == transform[Head(rest)][1]
             value == transform[Head(rest)][2]
         IN  GroupByLoop(Tail(rest), transform,
                         Put(resultMap, key, Append(Lookup0(resultMap, key), value)))

GroupBy(items, transform) ==
    [state |-> "returned", isNil |-> FALSE, groups |-> GroupByLoop(items, transform, EmptyMap)]

\* The transforms: every total func(T) (K, V) on the elements.
Transforms == [Elems -> Keys \X Values]

CallGroupBy ==
    \E transform \in Transforms :
        Apply(Called("GroupBy", transform, GroupBy(input, transform)))

(***************************************************************************)
(* Fold, Reduce and ReduceIndexed (slice.go:316-322 and 433-453).  `calls` *)
(* keeps the arguments of every invocation of the combiner, in call order. *)
(* The combiners are total; one that panics is not modelled.               *)
(***************************************************************************)
Folded(acc, asked) == [acc |-> acc, calls |-> asked]

\* slice.go:318-320: the range over s, `rest` being what is left of it
RECURSIVE FoldLoop(_, _, _, _)
FoldLoop(rest, acc, fn, asked) ==
    IF rest = << >> THEN Folded(acc, asked)
    ELSE FoldLoop(Tail(rest), fn[<<acc, Head(rest)>>], fn, Append(asked, <<acc, Head(rest)>>))

Fold(s, initial, fn) == FoldLoop(s, initial, fn, << >>)

ReducePanicked == [state |-> "panic", value |-> 0, calls |-> << >>]
Reduced(value, asked) == [state |-> "returned", value |-> value, calls |-> asked]

\* Reduce that answers the empty slice with the zero value.
Reduce_ZeroOnEmpty(s, fn) ==
    IF Len(s) = 0 THEN Reduced(0, << >>)
    ELSE IF Len(s) = 1 THEN Reduced(s[1], << >>)
    ELSE LET folded == Fold(Tail(s), s[1], fn)
         IN  Reduced(folded.acc, folded.calls)

Reduce(s, fn) ==
    IF Len(s) = 1
    THEN Reduced(s[1], << >>)                       \* return s[0]
    ELSE IF Len(s) = 0
    THEN ReducePanicked                             \* s[1:]: slice bounds out of range
    ELSE LET folded == Fold(Tail(s), s[1], fn)
         IN  Reduced(folded.acc, folded.calls)

\* The loop that hands the combiner the index in s[1:].
RECURSIVE ReduceIndexedLoop_IndexInTail(_, _, _, _, _)
ReduceIndexedLoop_IndexInTail(rest, i, acc, fn, asked) ==
    IF rest = << >> THEN Reduced(acc, asked)
    ELSE ReduceIndexedLoop_IndexInTail(Tail(rest), i + 1, fn[<<i, acc, Head(rest)>>], fn,
                                       Append(asked, <<i, acc, Head(rest)>>))

\* slice.go:449-451: the range over s[1:] from its index i on
RECURSIVE ReduceIndexedLoop(_, _, _, _, _)
ReduceIndexedLoop(rest, i, acc, fn, asked) ==
    IF rest = << >> THEN Reduced(acc, asked)
    ELSE ReduceIndexedLoop(Tail(rest), i + 1, fn[<<i + 1, acc, Head(rest)>>], fn,
                           Append(asked, <<i + 1, acc, Head(rest)>>))

ReduceIndexed(s, fn) ==
    IF Len(s) = 1
    THEN Reduced(s[1], << >>)                       \* return s[0]
    ELSE IF Len(s) = 0
    THEN ReducePanicked                             \* s[0]: index out of range
    ELSE ReduceIndexedLoop(Tail(s), 0, s[1], fn, << >>)

\* Some func(T, T) T: the accumulator, the element, the larger of the two,
\* and one that is neither commutative nor associative.
Combiners ==
    { [p \in Elems \X Elems |-> p[1]],
      [p \in Elems \X Elems |-> p[2]],
      [p \in Elems \X Elems |-> IF p[1] >= p[2] THEN p[1] ELSE p[2]],
      [p \in Elems \X Elems |-> ((2 * p[1] + p[2]) % NumElems) + 1] }

\* Some func(int, T, T) T: the combiners above, and one that looks at the
\* index.
IndexedCombiners ==
    { [q \in (0..MaxLen) \X Elems \X Elems |-> fn[<<q[2], q[3]>>]] : fn \in Combiners }
    \cup { [q \in (0..MaxLen) \X Elems \X Elems |-> IF q[1] % 2 = 1 THEN q[2] ELSE q[3]] }

CallReduce ==
    \E fn \in Combiners : Apply(Called("Reduce", fn, Reduce(input, fn)))

CallReduceIndexed ==
    \E fn \in IndexedCombiners : Apply(Called("ReduceIndexed", fn, ReduceIndexed(input, fn)))

(***************************************************************************)
(* Filter, Map, FilterMap and FlatMap (slice.go:246-254, 395-401, 275-288  *)
(* and 294-300) and the Map and FlatMap of godelin.go (227-236, 172-178),  *)
(* which differ from those of slice.go in what they return when nothing is *)
(* appended.  append to a nil slice of no elements gives the nil slice.    *)
(***************************************************************************)
\* ret = append(ret, elems...): ret stays nil when it is nil and elems is empty
AppendAll(ret, elems) ==
    [isNil |-> ret.isNil /\ elems = << >>, items |-> ret.items \o elems]

Made == [isNil |-> FALSE, items |-> << >>]         \* make([]T, 0)
NilSlice == [isNil |-> TRUE, items |-> << >>]      \* var ret []T

RECURSIVE FilterLoop(_, _, _)
FilterLoop(rest, fn, ret) ==
    IF rest = << >> THEN ret
    ELSE FilterLoop(Tail(rest), fn,
                    IF fn[Head(rest)] THEN AppendAll(ret, <<Head(rest)>>) ELSE ret)

Filter(s, fn) ==
    LET ret == FilterLoop(s, fn, Made) IN ReturnedItems(ret.isNil, ret.items)

RECURSIVE MapLoop(_, _, _)
MapLoop(rest, fn, ret) ==
    IF rest = << >> THEN ret
    ELSE MapLoop(Tail(rest), fn, AppendAll(ret, <<fn[Head(rest)]>>))

Map(s, fn) ==
    LET ret == MapLoop(s, fn, Made) IN ReturnedItems(ret.isNil, ret.items)

\* godelin.go:227-236
GodelinMap(inputSlice, transform) ==
    IF Len(inputSlice) = 0
    THEN ReturnedItems(TRUE, << >>)                 \* return nil
    ELSE LET mapped == MapLoop(inputSlice, transform, Made)
         IN  ReturnedItems(mapped.isNil, mapped.items)

RECURSIVE FilterMapLoop(_, _, _)
FilterMapLoop(rest, fn, ret) ==
    IF rest = << >> THEN ret
    ELSE LET m == fn[Head(rest)][1]
             ok == fn[Head(rest)][2]
         IN  FilterMapLoop(Tail(rest), fn, IF ok THEN AppendAll(ret, <<m>>) ELSE ret)

FilterMap(s, fn) ==
    LET ret == FilterMapLoop(s, fn, Made) IN ReturnedItems(ret.isNil, ret.items)

RECURSIVE FlatMapLoop(_, _, _)
FlatMapLoop(rest, fn, ret) ==
    IF rest = << >> THEN ret
    ELSE FlatMapLoop(Tail(rest), fn, AppendAll(ret, fn[Head(rest)]))

\* slice.go:294-300: ret starts as the nil slice
FlatMap(s, fn) ==
    LET ret == FlatMapLoop(s, fn, NilSlice) IN ReturnedItems(ret.isNil, ret.items)

\* godelin.go:172-178: result starts as make([]T2, 0)
GodelinFlatMap(inputSlice, transform) ==
    LET ret == FlatMapLoop(inputSlice, transform, Made) IN ReturnedItems(ret.isNil, ret.items)

Predicates == [Elems -> BOOLEAN]
Mappers == [Elems -> Values]
FilterMappers == [Elems -> Values \X BOOLEAN]
\* what a func(T1) []T2 gives for one element: nothing, one value, or a value twice
Expansions == {<< >>} \cup {<<v>> : v \in Values} \cup {<<v, v>> : v \in Values}
FlatMappers == [Elems -> Expansions]

CallFilter == \E fn \in Predicates : Apply(Called("Filter", fn, Filter(input, fn)))

CallMap == \E fn \in Mappers : Apply(Called("Map", fn, Map(input, fn)))

CallGodelinMap == \E fn \in Mappers : Apply(Called("GodelinMap", fn, GodelinMap(input, fn)))

CallFilterMap == \E fn \in FilterMappers : Apply(Called("FilterMap", fn, FilterMap(input, fn)))

CallFlatMap == \E fn \in FlatMappers : Apply(Called("FlatMap", fn, FlatMap(input, fn)))

CallGodelinFlatMap ==
    \E fn \in FlatMappers : Apply(Called("GodelinFlatMap", fn, GodelinFlatMap(input, fn)))

(***************************************************************************)
(* DropLast of slice.go:207-212 and of godelin.go:124-132.  s[:h] panics   *)
(* unless 0 <= h <= cap(s); the inputs have cap = len.                     *)
(***************************************************************************)
DropLastPanicked == [state |-> "panic", isNil |-> FALSE, items |-> << >>]

DropLast(s, n) ==
    IF n >= Len(s)
    THEN ReturnedItems(FALSE, << >>)                \* return make([]T, 0)
    ELSE IF n < 0
    THEN DropLastPanicked                           \* s[:len(s)-n] beyond cap(s)
    ELSE ReturnedItems(FALSE, SubSeq(s, 1, Len(s) - n))

GodelinDropLast(inputSlice, numToDrop) ==
    IF numToDrop <= 0 \/ Len(inputSlice) = 0
    THEN ReturnedItems(FALSE, inputSlice)           \* return inputSlice
    ELSE IF numToDrop >= Len(inputSlice)
    THEN ReturnedItems(TRUE, << >>)                 \* return nil
    ELSE ReturnedItems(FALSE, SubSeq(inputSlice, 1, Len(inputSlice) - numToDrop))

CallDropLast ==
    \E n \in Sizes : Apply(Called("DropLast", n, DropLast(input, n)))

CallGodelinDropLast ==
    \E n \in Sizes : Apply(Called("GodelinDropLast", n, GodelinDropLast(input, n)))

NextSlices ==
    \/ CallDistinct
    \/ CallDistinctBy
    \/ CallGroupBy
    \/ CallReduce
    \/ CallReduceIndexed
    \/ CallFilter
    \/ CallMap
    \/ CallGodelinMap
    \/ CallFilterMap
    \/ CallFlatMap
    \/ CallGodelinFlatMap
    \/ CallDropLast
    \/ CallGodelinDropLast

SpecSlices == InitSlices /\ [][NextSlices]_vars

(***************************************************************************)
(* Storage.  The caller's slice `input` is its whole backing array (cap =  *)
(* len).  A slice a function returns either is a slice expression of the   *)
(* argument, and then shares input's storage (elements lo .. hi-1,         *)
(* 0-based), or was built by make/append and has storage of its own.  A    *)
(* write result[i] = v into a sharing slice is a write into input.         *)
(* Chunked (slice.go:80-94), Drop (196-204), Take (474-479) and Reversed   *)
(* (463-469) are taken here, and Reverse (456-460), which returns nothing  *)
(* and swaps the elements of its argument in place.                        *)
(***************************************************************************)
Sharing(lo, hi) == [shared |-> TRUE, isNil |-> FALSE, lo |-> lo, hi |-> hi, items |-> << >>]
Fresh(items) == [shared |-> FALSE, isNil |-> FALSE, lo |-> 0, hi |-> Len(items), items |-> items]
NilOne == [shared |-> FALSE, isNil |-> TRUE, lo |-> 0, hi |-> 0, items |-> << >>]

\* What a call on the slice `orig` gave: the slices it returned.
Gave(op, n, orig, slices) ==
    [state |-> "returned", op |-> op, n |-> n, orig |-> orig, slices |-> slices,
     written |-> << >>]
GavePanic(op, n, orig) ==
    [state |-> "panic", op |-> op, n |-> n, orig |-> orig, slices |-> << >>,
     written |-> << >>]

\* Drop that copies what it keeps.
Drop_Copies(elements, n) ==
    IF n <= 0 \/ Len(elements) = 0 THEN Fresh(elements)
    ELSE IF n >= Len(elements) THEN NilOne
    ELSE Fresh(SubSeq(elements, n + 1, Len(elements)))

Drop(elements, n) ==
    IF n <= 0 \/ Len(elements) = 0
    THEN Sharing(0, Len(elements))                  \* return elements
    ELSE IF n >= Len(elements)
    THEN NilOne                                     \* return nil
    ELSE Sharing(n, Len(elements))                  \* return elements[n:]

\* Take: whether it panics, and the slice it returns
Take(s, n) ==
    IF Len(s) <= n
    THEN [panics |-> FALSE, slice |-> Sharing(0, Len(s))]   \* return s
    ELSE IF n < 0
    THEN [panics |-> TRUE, slice |-> NilOne]        \* s[:n]: slice bounds out of range
    ELSE [panics |-> FALSE, slice |-> Sharing(0, n)]        \* return s[:n]

RECURSIVE ReversedLoop(_, _, _)
ReversedLoop(s, i, ret) ==
    IF i >= 0 THEN ReversedLoop(s, i - 1, Append(ret, s[i + 1])) ELSE ret

Reversed(s) == Fresh(ReversedLoop(s, Len(s) - 1, << >>))

\* The loop of Reverse (slice.go:457-459): s[i], s[j] = s[j], s[i] while i < j
RECURSIVE ReverseLoop(_, _, _)
ReverseLoop(s, i, j) ==
    IF i < j
    THEN ReverseLoop([s EXCEPT ![i + 1] = s[j + 1], ![j + 1] = s[i + 1]], i + 1, j - 1)
    ELSE s

\* Reverse: what the caller's slice holds afterwards
Reverse(s) == ReverseLoop(s, 0, Len(s) - 1)

\* The elements a returned slice holds.
ItemsOf(sl) == IF sl.shared THEN SubSeq(input, sl.lo + 1, sl.hi) ELSE sl.items

AliasChunked ==
    \E n \in Sizes :
        LET r == Chunked(input, n)
        IN  Apply(IF r.state = "panic" THEN GavePanic("Chunked", n, input)
                  ELSE Gave("Chunked", n, input,
                            [k \in 1..Len(r.chunks) |-> Sharing(r.chunks[k].lo, r.chunks[k].hi)]))

AliasDrop == \E n \in Sizes : Apply(Gave("Drop", n, input, <<Drop(input, n)>>))

AliasTake ==
    \E n \in Sizes :
        LET r == Take(input, n)
        IN  Apply(IF r.panics THEN GavePanic("Take", n, input)
                  ELSE Gave("Take", n, input, <<r.slice>>))

AliasReversed == Apply(Gave("Reversed", 0, input, <<Reversed(input)>>))

\* Reverse(input): no result, the caller's slice reversed in place
CallReverse ==
    /\ result.state = "notrun"
    /\ input' = Reverse(input)
    /\ result' = Gave("Reverse", 0, input, << >>)
    /\ UNCHANGED <<chunkSize, groupingFn, input2, unzipped>>
    /\ UNCHANGED <<winSize, winStep, winStart, winEnd, memoVars, callerVars>>

\* The caller's later write slices[k][i] = v (i 0-based) into a returned slice.
WriteElement ==
    /\ result.state = "returned"
    /\ result.written = << >>
    /\ \E k \in 1..Len(result.slices), v \in Elems :
          LET sl == result.slices[k]
          IN  \E i \in 0..(sl.hi - sl.lo - 1) :
                 /\ IF sl.shared
                    THEN /\ input' = [input EXCEPT ![sl.lo + i + 1] = v]
                         /\ result' = [result EXCEPT !.written = <<k, i, v>>]
                    ELSE /\ input' = input
                         /\ result' = [result EXCEPT !.written = <<k, i, v>>,
                                                     !.slices[k].items[i + 1] = v]
    /\ UNCHANGED <<chunkSize, groupingFn, input2, unzipped>>
    /\ UNCHANGED <<winSize, winStep, winStart, winEnd, memoVars, callerVars>>

NextAlias ==
    \/ AliasChunked
    \/ AliasDrop
    \/ AliasTake
    \/ AliasReversed
    \/ CallReverse
    \/ WriteElement

SpecAlias == InitSlices /\ [][NextAlias]_vars

(***************************************************************************)
(* Claims about sequential callers (Spec).                                 *)
(***************************************************************************)

\* C1 as stated: for every key, at most one compute invocation is ever made,
\* whatever the compute functions are.
C1_AtMostOneInvocationPerKey ==
    \A k \in Keys : calls[k] <= 1

\* C1 amended: for every key at most one compute invocation returns a value, a
\* key is stored exactly when one did, and compute is invoked only for a key
\* that is absent; the invocations that returned number the keys stored.
C1_AtMostOneCompletedComputePerKey ==
    /\ \A k \in Keys : /\ returned[k] <= 1
                       /\ returned[k] <= calls[k]
                       /\ (k \in DOMAIN data <=> returned[k] = 1)
    /\ (last.invoked = 1 => ~last.hit)

\* A key computed once and then requested again with compute left alone.
C1_Witness ==
    /\ last.hit /\ last.invoked = 0 /\ nops >= 2
    /\ calls[last.key] = 1 /\ returned[last.key] = 1

\* C2: once a key is stored no get-or-put removes or changes its entry, and
\* every later get-or-put of that key invokes nothing and returns the stored
\* value, which is the value the first completed compute for it produced.
C2_StoredEntryIsPermanent ==
    /\ [](last.invoked = 1 /\ ~last.panicked
            => last.key \in DOMAIN data /\ data[last.key] = last.arg.val
               /\ last.ret = last.arg.val)
    /\ [][\A k \in DOMAIN data :
            /\ k \in DOMAIN data' /\ data'[k] = data[k]
            /\ calls'[k] = calls[k]
            /\ (nops' > nops /\ last'.key = k
                  => last'.ret = data[k] /\ last'.invoked = 0 /\ ~last'.panicked)]_vars

\* getOrPut(k, f1) then getOrPut(k, f2) with f2 yielding another value: the
\* second call returned f1's value and f2 was not invoked.
C2_Witness ==
    /\ nops = 2 /\ last.hit /\ ~last.arg.panics
    /\ last.arg.val # last.ret /\ last.ret = data[last.key]
    /\ calls[last.key] = 1

\* C3: a get-or-put of a key already present returns the stored value, does
\* not invoke compute and leaves every key and value of the table as it was.
C3_HitReturnsStoredAndChangesNothing ==
    last.hit => /\ last.ret = last.before[last.key]
                /\ last.invoked = 0
                /\ ~last.panicked
                /\ data = last.before

\* A hit on a table of two entries, with a compute function that would panic.
C3_Witness ==
    /\ last.hit /\ last.arg.panics
    /\ Cardinality(DOMAIN last.before) = 2

\* C4: a get-or-put of an absent key whose compute returns v invokes compute
\* once, returns v, and leaves the table as it was plus the entry key -> v.
C4_MissComputesOnceAndExtendsTable ==
    (last.op # "none" /\ ~last.hit /\ ~last.arg.panics)
        => /\ last.invoked = 1
           /\ ~last.panicked
           /\ last.ret = last.arg.val
           /\ DOMAIN data = (DOMAIN last.before) \cup {last.key}
           /\ data[last.key] = last.arg.val
           /\ \A k \in DOMAIN last.before : data[k] = last.before[k]

\* A miss on a table that already holds another key.
C4_Witness ==
    /\ last.op # "none" /\ ~last.hit /\ ~last.panicked
    /\ DOMAIN last.before # {}
    /\ DOMAIN data = (DOMAIN last.before) \cup {last.key}

\* C5: when compute panics on an absent key the call panics, the key stays
\* absent and the table is unchanged; the next get-or-put of that key invokes
\* its compute again.
C5_PanicLeavesKeyAbsent ==
    /\ [](last.op # "none" /\ ~last.hit /\ last.arg.panics
            => /\ last.panicked /\ last.invoked = 1
               /\ data = last.before
               /\ last.key \notin DOMAIN data)
    /\ [][(last.panicked /\ nops' > nops /\ last'.key = last.key)
            => last'.invoked = 1]_vars

\* A key whose first compute panicked and whose second compute was invoked and
\* stored, other entries being present.
C5_Witness ==
    /\ last.op # "none"
    /\ calls[last.key] = 2 /\ returned[last.key] = 1
    /\ last.invoked = 1 /\ ~last.panicked
    /\ Cardinality(DOMAIN data) = 2

(***************************************************************************)
(* Claims about concurrent callers (SpecConcurrent, SpecLocked).           *)
(***************************************************************************)
PendingCompute(k) == Cardinality({c \in Callers : pc[c] = "compute" /\ ckey[c] = k})

\* C6: the presence check and the store are separate steps, so every caller
\* whose lookup missed goes on to invoke compute and to store, whatever other
\* callers stored in between: for each key the compute invocations number the
\* missed lookups less the callers still between lookup and compute, and a
\* store replaces whatever entry is there.  Two callers that both miss the
\* same key therefore both compute (C6_Witness is such a run).
C6_MissedLookupAlwaysComputes ==
    /\ [](\A k \in Keys : calls[k] = misses[k] - PendingCompute(k))
    /\ [][\A c \in Callers :
            (pc[c] = "store" /\ pc'[c] = "done")
                => (ckey[c] \in DOMAIN data' /\ data'[ckey[c]] = cval[c])]_vars

\* Two callers computed the same key; the first storer was handed a value that
\* the table no longer holds, the second storer's value having replaced it.
C6_Witness ==
    /\ ~crashed
    /\ \E k \in Keys, c1, c2 \in Callers :
          /\ c1 # c2
          /\ calls[k] = 2 /\ returned[k] = 2
          /\ pc[c1] = "done" /\ pc[c2] = "done"
          /\ cret[c1].key = k /\ cret[c1].computed /\ ~cret[c1].panicked
          /\ cret[c2].key = k /\ cret[c2].computed /\ ~cret[c2].panicked
          /\ k \in DOMAIN data
          /\ data[k] = cret[c2].ret /\ data[k] # cret[c1].ret

\* C7 as stated: under the lock compute is invoked at most once per key in
\* every interleaving, and all callers of a key obtain the same value.
C7_LockedAtMostOneInvocationPerKey ==
    \A k \in Keys : calls[k] <= 1 /\ Cardinality(got[k]) <= 1

\* C7 amended: under the lock at most one caller is inside GetOrPut at a time,
\* no map race arises, at most one compute invocation per key returns a value,
\* and every caller that obtains a value for a key obtains the stored one.
C7_LockedAtMostOneCompletedCompute ==
    /\ ~crashed
    /\ Cardinality({c \in Callers : pc[c] # "idle"}) <= 1
    /\ \A c \in Callers : pc[c] # "idle" => lock = c
    /\ \A k \in Keys :
          /\ returned[k] <= 1
          /\ Cardinality(got[k]) <= 1
          /\ (k \in DOMAIN data => got[k] = {data[k]})
          /\ (k \notin DOMAIN data => got[k] = {})

\* Two callers asked for the same key with compute functions yielding different
\* values; the first computed and stored, the second was handed the same value.
C7_Witness ==
    \E c1, c2 \in Callers :
        /\ c1 # c2
        /\ cret[c1].key # 0 /\ cret[c2].key = cret[c1].key
        /\ cret[c1].computed /\ ~cret[c1].panicked
        /\ ~cret[c2].computed /\ cret[c2].ret = cret[c1].ret
        /\ ~cfn[c2].panics /\ cfn[c2].val # cret[c2].ret
        /\ pc[c2] = "done" /\ pc[c1] = "idle" /\ lock = c2

(***************************************************************************)
(* Claims about Chunked (SpecChunked).                                     *)
(***************************************************************************)
Ran == result.state # "notrun"

\* The capacity expression (totalItems+chunkSize-1) stays within int.
NoOverflow == chunkSize - 1 <= MaxInt - Len(input)

\* ceil(n / size) for n >= 0 and size > 0
CeilDiv(n, size) == IF n = 0 THEN 0 ELSE ((n - 1) \div size) + 1

ChunksConcatenateToInput ==
    /\ result.state = "returned"
    /\ Flatten(input, result.chunks) = input
    /\ \A i \in 1..(Len(result.chunks) - 1) : ViewLen(result.chunks[i]) = chunkSize

\* C8: for every sequence and every size > 0 the chunks of Chunked(s, size),
\* concatenated in order, are s, and every chunk but the last has exactly size
\* elements.
C8_ChunksConcatenateToInput ==
    (Ran /\ chunkSize > 0) => ChunksConcatenateToInput

\* C8 where totalItems+chunkSize-1 does not overflow: the same statement.
C8_ChunksConcatenateToInputWithoutOverflow ==
    (Ran /\ chunkSize > 0 /\ NoOverflow) => ChunksConcatenateToInput

\* C9: Chunked panics for every size <= 0, whatever the input (the empty one
\* included), and hands back no chunks.
C9_NonPositiveSizePanics ==
    (Ran /\ chunkSize <= 0) => (result.state = "panic" /\ result.chunks = << >>)

\* Chunked of the empty slice with a non-positive size has panicked.
C9_Witness ==
    Ran /\ chunkSize <= 0 /\ input = << >> /\ result.state = "panic"

ChunkCountAndSizes ==
    /\ result.state = "returned"
    /\ \A i \in 1..Len(result.chunks) :
          /\ 1 <= ViewLen(result.chunks[i])
          /\ ViewLen(result.chunks[i]) <= chunkSize
    /\ Len(result.chunks) = CeilDiv(Len(input), chunkSize)
    /\ (input = << >> => result.chunks = << >>)

\* C10: for size > 0 Chunked emits no empty chunk, the final chunk holds
\* between 1 and size elements, there are ceil(len(s)/size) chunks, and the
\* empty input yields no chunk.
C10_ChunkCountAndSizes ==
    (Ran /\ chunkSize > 0) => ChunkCountAndSizes

\* C10 where totalItems+chunkSize-1 does not overflow: the same statement.
C10_ChunkCountAndSizesWithoutOverflow ==
    (Ran /\ chunkSize > 0 /\ NoOverflow) => ChunkCountAndSizes


(***************************************************************************)
(* ChunkedBy                                                               *)
(***************************************************************************)
\* The 1-based positions i of input with a next element input[i+1].
AdjacentPairs == 1..(Len(input) - 1)

\* The positions i after which a run of the result ends and another starts.
RECURSIVE RunEnds(_, _)
RunEnds(runs, offset) ==
    IF Len(runs) <= 1 THEN {}
    ELSE {offset + Len(Head(runs))} \cup RunEnds(Tail(runs), offset + Len(Head(runs)))

RECURSIVE Concat(_)
Concat(runs) == IF runs = << >> THEN << >> ELSE Head(runs) \o Concat(Tail(runs))

FalseOutcomes == {i \in AdjacentPairs : ~groupingFn[<<input[i], input[i + 1]>>]}

\* C11: ChunkedBy puts a run boundary between s[i] and s[i+1] exactly when
\* pred(s[i], s[i+1]) is false; it consults pred once per adjacent pair, in
\* order, with s[i] (the last element of the current run) first and s[i+1]
\* second; on a non-empty input the number of runs is 1 plus the number of
\* false outcomes.
C11_BoundaryExactlyWhereFalse ==
    (Ran /\ input # << >>) =>
        /\ result.state = "returned"
        /\ result.consulted = [i \in AdjacentPairs |-> <<input[i], input[i + 1]>>]
        /\ RunEnds(result.chunks, 0) = FalseOutcomes
        /\ Len(result.chunks) = 1 + Cardinality(FalseOutcomes)

\* A call that met both outcomes: a pair that continued the run, then a pair
\* that closed it.
C11_Witness ==
    /\ Ran /\ Len(input) = 3
    /\ groupingFn[<<input[1], input[2]>>]
    /\ ~groupingFn[<<input[2], input[3]>>]
    /\ result.chunks = <<SubSeq(input, 1, 2), <<input[3]>>>>


\* The run at position k of the result is input's elements from..to (1-based).
RunStart(runs, k) == 1 + Len(Concat(SubSeq(runs, 1, k - 1)))

\* C12: for every sequence and predicate the runs ChunkedBy returns are
\* non-empty, each is a contiguous stretch of the input (run k starts where
\* run k-1 ended), and concatenated in order they equal the input, so every
\* element is in exactly one run.
C12_RunsPartitionInput ==
    Ran =>
        /\ result.state = "returned"
        /\ \A k \in 1..Len(result.chunks) :
              LET from == RunStart(result.chunks, k)
                  run == result.chunks[k]
              IN  /\ run # << >>
                  /\ run = SubSeq(input, from, from + Len(run) - 1)
        /\ Concat(result.chunks) = input

\* A call that split a three-element input into a run of one and a run of two.
C12_Witness ==
    /\ Ran /\ Len(input) = 3
    /\ result.chunks = <<<<input[1]>>, SubSeq(input, 2, 3)>>

\* C13: ChunkedBy on an empty input returns an empty sequence of runs that is
\* a present container, not a nil value.
C13_EmptyInputGivesEmptyNotNil ==
    (Ran /\ input = << >>) =>
        /\ result.state = "returned"
        /\ result.chunks = << >>
        /\ ~IsNil(result)

\* C13 as the code has it: ChunkedBy on an empty input returns the nil slice,
\* which has no runs, without consulting the predicate.
C13_EmptyInputGivesNil ==
    (Ran /\ input = << >>) =>
        /\ result.state = "returned"
        /\ result.chunks = << >>
        /\ result.consulted = << >>
        /\ IsNil(result)

\* ChunkedBy has returned for an empty input.
C13_Witness == Ran /\ input = << >> /\ result.state = "returned" /\ IsNil(result)


(***************************************************************************)
(* Windowed                                                                *)
(***************************************************************************)
\* The call is over: it returned or it panicked.
Finished == result.state \in {"returned", "panic"}

Min(a, b) == IF a <= b THEN a ELSE b

\* start + size stays within int for every start the loop reaches.
NoWindowOverflow == winSize <= MaxInt - Len(input)

\* Window number k (k = 0, 1, ...) is input's elements at the 0-based
\* indices [k*step, min(k*step+size, len)).
WindowsAsSpecified ==
    \A k \in 0..(Len(result.chunks) - 1) :
        /\ k * winStep < Len(input)
        /\ result.chunks[k + 1] =
              SubSeq(input, k * winStep + 1,
                     IF winSize >= Len(input) - k * winStep THEN Len(input)
                     ELSE k * winStep + winSize)

\* C14: for size > 0 and step > 0 Windowed returns windows, and window k is
\* exactly input's elements at [k*step, min(k*step+size, len(s))), so its
\* length is min(size, elements left from its start).
C14_WindowsAsSpecified ==
    (Finished /\ winSize > 0 /\ winStep > 0) =>
        /\ result.state = "returned"
        /\ WindowsAsSpecified
        /\ \A k \in 0..(Len(result.chunks) - 1) :
              Len(result.chunks[k + 1]) = Min(winSize, Len(input) - k * winStep)

\* C14 where start+size does not overflow: the same statement.
C14_WindowsAsSpecifiedWithoutOverflow ==
    (Finished /\ winSize > 0 /\ winStep > 0 /\ NoWindowOverflow) =>
        /\ result.state = "returned"
        /\ WindowsAsSpecified
        /\ \A k \in 0..(Len(result.chunks) - 1) :
              Len(result.chunks[k + 1]) = Min(winSize, Len(input) - k * winStep)


\* ceil(max(len(s) - size, 0) / step) + 1 for a non-empty input, else 0
CountAsClaimed ==
    IF Len(input) = 0 THEN 0
    ELSE CeilDiv(IF Len(input) > winSize THEN Len(input) - winSize ELSE 0, winStep) + 1

\* C15: for size > 0 and step > 0 the number of windows Windowed returns is
\* ceil(max(len(s) - size, 0)/step) + 1 when len(s) > 0, and 0 when s is empty.
C15_WindowCountAsClaimed ==
    (Finished /\ winSize > 0 /\ winStep > 0) =>
        /\ result.state = "returned"
        /\ Len(result.chunks) = CountAsClaimed

\* C15 as the code has it: for size > 0 and step > 0 a call on an empty input
\* returns 0 windows; a call on a non-empty input returns ceil(len(s)/step)
\* windows, one for every multiple of step below len(s), whatever the size,
\* unless len(s)+size overflows int, and then it panics.
C15_WindowCountIsStartsBelowLen ==
    (Finished /\ winSize > 0 /\ winStep > 0) =>
        IF Len(input) = 0 THEN result.state = "returned" /\ Len(result.chunks) = 0
        ELSE IF NoWindowOverflow
        THEN /\ result.state = "returned"
             /\ Len(result.chunks) = CeilDiv(Len(input), winStep)
             /\ Len(result.chunks) = Cardinality({i \in 0..(Len(input) - 1) : i % winStep = 0})
        ELSE result.state = "panic"

\* A call whose windows overlap and trail: three elements, size 2, step 1
\* give three windows where the claimed count is two.
C15_Witness ==
    /\ result.state = "returned"
    /\ Len(input) = 3 /\ winSize = 2 /\ winStep = 1
    /\ Len(result.chunks) = 3
    /\ CountAsClaimed = 2

\* C16: Windowed panics whenever size <= 0 or step <= 0, for every input,
\* the empty one included, and returns no windows then.
C16_NonPositiveArgumentPanics ==
    (Finished /\ (winSize <= 0 \/ winStep <= 0)) =>
        (result.state = "panic" /\ result.chunks = << >>)

\* C17: for size > 0 and step > 0 no window Windowed emits is empty, and an
\* empty input gives a sequence of no windows that is neither one empty
\* window nor a nil value.
C17_NoEmptyWindow ==
    (Ran /\ winSize > 0 /\ winStep > 0) =>
        /\ \A k \in 1..Len(result.chunks) : result.chunks[k] # << >>
        /\ input = << >> =>
              (result.state = "returned" /\ result.chunks = << >> /\ ~IsNil(result))

\* A call that returned after a last window of one element, the loop having
\* ended at start = end = len(s) without emitting that empty stretch.
C17_Witness ==
    /\ result.state = "returned"
    /\ winSize = 2 /\ winStep = 1 /\ Len(input) = 2
    /\ winStart = winEnd /\ winEnd = Len(input)
    /\ result.chunks = <<input, <<input[2]>>>>

\* C18: every call of Windowed comes to an end, by returning or by
\* panicking, for every size and step, step = 0 on a non-empty input included.
C18_WindowedTerminates == <>Finished

\* Every call but those of LoopsForever comes to an end.
OthersTerminate == LoopsForever(input, winSize, winStep) \/ <>Finished

\* A call of LoopsForever never comes to an end.
LoopsForeverNeverEnds == LoopsForever(input, winSize, winStep) => ~Finished


(***************************************************************************)
(* Zip and Unzip                                                           *)
(***************************************************************************)
MinLen == Min(Len(input), Len(input2))

\* C19: Zip(a, b) returns exactly min(len(a), len(b)) pairs, pair i being
\* (a[i], b[i]); what the longer input has beyond that is dropped, and an
\* empty input on either side gives no pairs.
C19_ZipPairsByIndex ==
    Ran =>
        /\ result.state = "returned"
        /\ Len(result.pairs) = MinLen
        /\ \A i \in 1..MinLen : result.pairs[i] = Pair(input[i], input2[i])
        /\ (input = << >> \/ input2 = << >>) => result.pairs = << >>

\* Zip of three elements with two: two pairs, the third element dropped.
C19_Witness ==
    /\ Ran /\ Len(input) = 3 /\ Len(input2) = 2
    /\ result.pairs = <<Pair(input[1], input2[1]), Pair(input[2], input2[2])>>

\* C20: Unzip(Zip(a, b)) is (the first n elements of a, the first n elements
\* of b) with n = min(len(a), len(b)), and its two sequences have the same
\* length.
C20_UnzipOfZipTakesPrefixes ==
    unzipped.done =>
        /\ unzipped.s1 = SubSeq(input, 1, MinLen)
        /\ unzipped.s2 = SubSeq(input2, 1, MinLen)
        /\ Len(unzipped.s1) = Len(unzipped.s2)

\* Unzip of the Zip of one element with three whose first differs from it.
C20_Witness ==
    /\ unzipped.done /\ Len(input) = 1 /\ Len(input2) = 3
    /\ input[1] # input2[1]
    /\ unzipped.s1 = input /\ unzipped.s2 = <<input2[1]>>


(***************************************************************************)
(* Distinct and DistinctBy                                                 *)
(***************************************************************************)
\* The call that ran was op.
Did(op) == Ran /\ result.op = op

\* The elements of s at the positions in idx, in the order of s.
RECURSIVE ElementsAt(_, _, _)
ElementsAt(s, idx, i) ==
    IF i > Len(s) THEN << >>
    ELSE (IF i \in idx THEN <<s[i]>> ELSE << >>) \o ElementsAt(s, idx, i + 1)

\* The positions of input holding a value no earlier position holds.
FirstOccurrences == {i \in 1..Len(input) : \A j \in 1..(i - 1) : input[j] # input[i]}

\* C21: Distinct(s) holds each value occurring in s exactly once, in the
\* order of the values' first occurrences in s, and is no longer than s.
C21_DistinctKeepsFirstOccurrences ==
    Did("Distinct") =>
        /\ result.state = "returned"
        /\ \A v \in Elems :
              Cardinality({i \in 1..Len(result.items) : result.items[i] = v})
                  = IF \E j \in 1..Len(input) : input[j] = v THEN 1 ELSE 0
        /\ result.items = ElementsAt(input, FirstOccurrences, 1)
        /\ Len(result.items) <= Len(input)

\* Distinct of a, b, a: the second a is dropped, b stays behind the first a.
C21_Witness ==
    /\ Did("Distinct") /\ Len(input) = 3
    /\ input[1] # input[2] /\ input[3] = input[1]
    /\ result.items = <<input[1], input[2]>>

\* The positions of input whose key no earlier position has.
FirstOfKey(keyFn) ==
    {i \in 1..Len(input) : \A j \in 1..(i - 1) : keyFn[input[j]] # keyFn[input[i]]}

\* C22: DistinctBy(s, keyFn) keeps, for every key keyFn gives over s, exactly
\* the first element of s with that key, drops every later element with the
\* same key, and keeps the kept elements in their order in s.
C22_DistinctByKeepsFirstPerKey ==
    Did("DistinctBy") =>
        /\ result.state = "returned"
        /\ result.items = ElementsAt(input, FirstOfKey(result.fn), 1)
        /\ \A k \in {result.fn[input[i]] : i \in 1..Len(input)} :
              Cardinality({i \in 1..Len(result.items) : result.fn[result.items[i]] = k}) = 1

\* DistinctBy of two different elements with one key: only the first is kept.
C22_Witness ==
    /\ Did("DistinctBy") /\ Len(input) = 2
    /\ input[1] # input[2]
    /\ result.fn[input[1]] = result.fn[input[2]]
    /\ result.items = <<input[1]>>


(***************************************************************************)
(* GroupBy                                                                 *)
(***************************************************************************)
RECURSIVE SumOfLens(_, _)
SumOfLens(groups, keys) ==
    IF keys = {} THEN 0
    ELSE LET k == CHOOSE x \in keys : TRUE
         IN  Len(groups[k]) + SumOfLens(groups, keys \ {k})

\* The values transform gives for the elements of input whose key is k, in
\* the order of input.
ValuesUnder(transform, k) ==
    LET members == ElementsAt(input, {i \in 1..Len(input) : transform[input[i]][1] = k}, 1)
    IN  [i \in 1..Len(members) |-> transform[members[i]][2]]

\* C23: GroupBy(s, transform) returns a mapping whose keys are exactly the
\* keys transform gives over s (no empty group; the empty input gives the
\* empty mapping); under each key are the values of the elements with that
\* key, in their order in s; the group lengths sum to len(s).
C23_GroupByGroupsInOrder ==
    Did("GroupBy") =>
        /\ result.state = "returned"
        /\ ~IsNil(result)
        /\ DOMAIN result.groups = {result.fn[input[i]][1] : i \in 1..Len(input)}
        /\ \A k \in DOMAIN result.groups :
              /\ result.groups[k] # << >>
              /\ result.groups[k] = ValuesUnder(result.fn, k)
        /\ SumOfLens(result.groups, DOMAIN result.groups) = Len(input)

\* GroupBy of two elements under one key with different values: one group,
\* the first element's value before the second's.
C23_Witness ==
    /\ Did("GroupBy") /\ Len(input) = 2
    /\ result.fn[input[1]][1] = result.fn[input[2]][1]
    /\ result.fn[input[1]][2] # result.fn[input[2]][2]
    /\ result.groups[result.fn[input[1]][1]] = <<result.fn[input[1]][2], result.fn[input[2]][2]>>
    /\ Cardinality(DOMAIN result.groups) = 1


(***************************************************************************)
(* Reduce and ReduceIndexed                                                *)
(***************************************************************************)
Reducing == Did("Reduce") \/ Did("ReduceIndexed")

\* C24: Reduce and ReduceIndexed panic on an empty sequence without invoking
\* the combiner; on a one-element sequence they return that element with no
\* invocation of the combiner.
C24_ReduceOfEmptyAndSingle ==
    Reducing =>
        /\ input = << >> => (result.state = "panic" /\ result.calls = << >>)
        /\ Len(input) = 1 =>
              (result.state = "returned" /\ result.value = input[1] /\ result.calls = << >>)

\* Reduce has panicked on the empty sequence.
C24_Witness == Did("Reduce") /\ input = << >> /\ result.state = "panic"

\* The accumulator after k invocations of the two-argument combiner fn.
RECURSIVE AccAfter(_, _)
AccAfter(fn, k) ==
    IF k = 0 THEN input[1] ELSE fn[<<AccAfter(fn, k - 1), input[k + 1]>>]

\* The same for a combiner that takes the index first.
RECURSIVE AccAfterIndexed(_, _)
AccAfterIndexed(fn, k) ==
    IF k = 0 THEN input[1] ELSE fn[<<k, AccAfterIndexed(fn, k - 1), input[k + 1]>>]

\* C27: for n >= 2 elements Reduce(s, f) is Fold(s[1:], s[0], f): f is invoked
\* n-1 times, in index order, with the running accumulator first and the next
\* element second; ReduceIndexed also passes the element's index in s, which
\* is 1, 2, ..., n-1.
C27_ReduceIsFoldFromFirst ==
    /\ (Did("Reduce") /\ Len(input) >= 2) =>
          /\ result.state = "returned"
          /\ result.value = Fold(Tail(input), input[1], result.fn).acc
          /\ result.value = AccAfter(result.fn, Len(input) - 1)
          /\ result.calls = [k \in 1..(Len(input) - 1) |->
                                <<AccAfter(result.fn, k - 1), input[k + 1]>>]
    /\ (Did("ReduceIndexed") /\ Len(input) >= 2) =>
          /\ result.state = "returned"
          /\ result.value = AccAfterIndexed(result.fn, Len(input) - 1)
          /\ result.calls = [k \in 1..(Len(input) - 1) |->
                                <<k, AccAfterIndexed(result.fn, k - 1), input[k + 1]>>]

\* ReduceIndexed over three elements with the combiner that looks at the
\* index: two invocations, with the indices 1 and 2.
C27_Witness ==
    /\ Did("ReduceIndexed") /\ Len(input) = 3
    /\ input[2] # input[3]
    /\ Len(result.calls) = 2
    /\ result.calls[1][1] = 1 /\ result.calls[2][1] = 2
    /\ result.calls[2][2] = result.fn[<<1, input[1], input[2]>>]
    /\ result.fn[<<1, input[2], input[3]>>] # result.fn[<<2, input[2], input[3]>>]


(***************************************************************************)
(* Filter, Map, FilterMap, FlatMap                                         *)
(***************************************************************************)
Transforming ==
    Ran /\ result.op \in {"Filter", "Map", "GodelinMap", "FilterMap", "FlatMap", "GodelinFlatMap"}

\* C25: Filter, Map, FilterMap and FlatMap of an empty input return an empty
\* sequence that is a present container, not nil.
C25_EmptyInputGivesEmptyNotNil ==
    (Transforming /\ input = << >>) =>
        /\ result.state = "returned"
        /\ result.items = << >>
        /\ ~IsNil(result)

\* C25 for the functions that make their result before the loop: Filter, Map
\* and FilterMap of slice.go and FlatMap of godelin.go.
C25_EmptyInputGivesEmptyNotNilWhereMade ==
    (Ran /\ result.op \in {"Filter", "Map", "FilterMap", "GodelinFlatMap"} /\ input = << >>) =>
        /\ result.state = "returned"
        /\ result.items = << >>
        /\ ~IsNil(result)


(***************************************************************************)
(* Storage shared between a result and the input                           *)
(***************************************************************************)
Written == Ran /\ result.state = "returned" /\ result.written # << >>

\* C26: every sequence operation other than the in-place Reverse leaves the
\* input unchanged and returns a result that shares no storage with it, so a
\* later write to an element of the result never changes the input.
C26_InputNeverChanges == (Ran /\ result.op # "Reverse") => input = result.orig

\* What the code does instead: no call but Reverse changes the input (Reverse
\* leaves element i where element len-1-i was), and a later write into the
\* slice Reversed returned does not either; the chunks of Chunked and the
\* slices Drop and Take return as slice expressions of the input share its
\* storage, so the write of v to element i of one of them, which starts at
\* element lo of the input, changes element lo+i of the input to v and
\* nothing else.
C26_WritesThroughViewsReachInput ==
    Ran =>
        /\ result.op = "Reverse" =>
              /\ Len(input) = Len(result.orig)
              /\ \A i \in 1..Len(input) : input[i] = result.orig[Len(input) + 1 - i]
        /\ (result.op # "Reverse" /\ (result.state = "panic" \/ result.written = << >>)) =>
              input = result.orig
        /\ Written =>
              LET k == result.written[1]
                  i == result.written[2]
                  v == result.written[3]
              IN  /\ ItemsOf(result.slices[k])[i + 1] = v
                  /\ IF result.op \in {"Chunked", "Drop", "Take"}
                     THEN input = [result.orig EXCEPT ![result.slices[k].lo + i + 1] = v]
                     ELSE input = result.orig

\* A write into the second chunk of Chunked(s, 2) of a three-element s has
\* changed the third element of s.
C26_Witness ==
    /\ Written /\ result.op = "Chunked" /\ result.n = 2
    /\ Len(result.orig) = 3
    /\ result.written[1] = 2 /\ result.written[2] = 0
    /\ input[3] # result.orig[3]
    /\ input[3] = result.written[3]


(***************************************************************************)
(* DropLast                                                                *)
(***************************************************************************)
\* What the claim says DropLast(input, n) is, n being kept in result.fn.
DropLastAsClaimed ==
    LET n == result.fn
    IN  /\ result.state = "returned"
        /\ n <= 0 => result.items = input
        /\ (0 < n /\ n < Len(input)) => result.items = SubSeq(input, 1, Len(input) - n)
        /\ n >= Len(input) => result.items = << >>
        /\ Len(result.items) <= Len(input)

\* C28: DropLast(s, n) returns s without its last n elements: s itself for
\* n <= 0, the first len(s)-n elements for 0 < n < len(s), an empty result for
\* n >= len(s); it never fails and never returns more than len(s) elements.
C28_DropLastAsClaimed ==
    (Did("DropLast") \/ Did("GodelinDropLast")) => DropLastAsClaimed

\* C28 for the DropLast of godelin.go, and for that of slice.go when n is not
\* negative: the same statement.
C28_DropLastAsClaimedWhereChecked ==
    (Did("GodelinDropLast") \/ (Did("DropLast") /\ result.fn >= 0)) => DropLastAsClaimed


(***************************************************************************)
(* Windowed: the number of windows, and Windowed against Chunked           *)
(***************************************************************************)
\* ceil(len(s)/step) windows, window k starting with the element at k*step.
OneWindowPerStepBelowLen ==
    /\ result.state = "returned"
    /\ Len(result.chunks) = CeilDiv(Len(input), winStep)
    /\ \A k \in 0..(Len(result.chunks) - 1) :
          /\ k * winStep < Len(input)
          /\ result.chunks[k + 1] # << >>
          /\ result.chunks[k + 1][1] = input[k * winStep + 1]

\* C29: for size > 0 and step > 0 Windowed returns exactly ceil(len(s)/step)
\* windows, one starting at every multiple of step below len(s), whatever the
\* size.
C29_OneWindowPerStepBelowLen ==
    (Finished /\ winSize > 0 /\ winStep > 0) => OneWindowPerStepBelowLen

\* C29 where start+size does not overflow: the same statement.
C29_OneWindowPerStepBelowLenWithoutOverflow ==
    (Finished /\ winSize > 0 /\ winStep > 0 /\ NoWindowOverflow) => OneWindowPerStepBelowLen

\* The element runs of what Chunked returns for the same input.
ChunkedRuns(n) ==
    LET c == Chunked(input, n)
    IN  [state |-> c.state,
         runs |-> [k \in 1..Len(c.chunks) |-> ViewElems(input, c.chunks[k])]]

\* Windowed(s, n, n) comes to the same as Chunked(s, n).
SameAsChunked ==
    /\ result.state = ChunkedRuns(winSize).state
    /\ result.state = "returned"
    /\ result.chunks = ChunkedRuns(winSize).runs

\* Window k covers the indices from k*step on, and ends before window k+1
\* starts.
WindowsDisjoint ==
    /\ result.state = "returned"
    /\ \A k \in 0..(Len(result.chunks) - 2) :
          k * winStep + Len(result.chunks[k + 1]) <= (k + 1) * winStep

\* C30: for every n > 0 Windowed(s, n, n) returns the same sequence of element
\* runs as Chunked(s, n), and whenever step >= size > 0 the windows cover
\* pairwise disjoint index ranges.
C30_WindowedWithStepSizeIsChunked ==
    /\ (Finished /\ winSize > 0 /\ winStep = winSize) => SameAsChunked
    /\ (Finished /\ winSize > 0 /\ winStep >= winSize) => WindowsDisjoint

\* C30 where neither start+size in Windowed nor the capacity expression in
\* Chunked overflows: the same statement.
C30_WindowedWithStepSizeIsChunkedWithoutOverflow ==
    /\ (Finished /\ winSize > 0 /\ winStep = winSize /\ NoWindowOverflow) => SameAsChunked
    /\ (Finished /\ winSize > 0 /\ winStep >= winSize /\ NoWindowOverflow) => WindowsDisjoint

=============================================================================
